---- MODULE Spec2Model ----
(***************************************************************************)
(* Model of the media pipeline of memento-mori                             *)
(* (src/memento_mori/media.py, class InstagramMediaProcessor).             *)
(*                                                                         *)
(* A path is a triple <<dir, stem, ext>>: "posts/81354.jpg" is             *)
(* <<"posts", "81354", ".jpg">>.  Directories are kept as written.         *)
(***************************************************************************)
EXTENDS Integers, Sequences, FiniteSets, TLC

\* ---------------------------------------------------------------- bounds

\* number of threads that call shorten_filename in the harness SpecShorten
NThreads == 2

\* ------------------------------------------------------- paths and hashes

\* The reference strings of the model.  81354.jpg and 105375.jpg are two
\* base names whose md5 digests share their first 8 hex characters.
Refs ==
  { <<"posts", "81354", ".jpg">>,
    <<"posts", "105375", ".jpg">>,
    <<"posts", "clip", ".mp4">>,
    <<"other", "81354", ".jpg">> }

\* inline data URIs: "data:image/png;base64,AAAA" and
\* "data:video/mp4;base64,AAAA" (as a path: the directory "data:image" or
\* "data:video", and a file name without a suffix)
DataRefs ==
  { <<"data:image", "png;base64,AAAA", "">>,
    <<"data:video", "mp4;base64,AAAA", "">> }

AllRefs == Refs \cup DataRefs

\* original_path.startswith('data:')
IsDataURI(p) == p[1] \in {"data:image", "data:video", "data:text"}

\* str(file_path).startswith("data:image")
IsDataImage(p) == p[1] = "data:image"

\* hashlib.md5(filename.encode()).hexdigest()[:8], filename = stem + ext
Md5Prefix8(stem, ext) ==
  CASE stem = "81354"  /\ ext = ".jpg"  -> "dfad42e6"
    [] stem = "105375" /\ ext = ".jpg"  -> "dfad42e6"
    [] stem = "clip"   /\ ext = ".mp4"  -> "d3e6a690"
    [] stem = "photo"  /\ ext = ".heic" -> "c729de64"
    [] stem = "photo"  /\ ext = ".jpg"  -> "72acded3"
    [] stem = "pic"    /\ ext = ".JPG"  -> "314f2482"
    [] stem = "profile" /\ ext = ".jpg" -> "ecebbecf"
    [] stem = "profile" /\ ext = ".png" -> "ebcd036a"
    [] OTHER -> "00000000"

\* path_obj.suffix.lower()
LowerExt(ext) ==
  CASE ext = ".JPG" -> ".jpg"
    [] ext = ".PNG" -> ".png"
    [] OTHER -> ext

VARIABLES
  filename_map,   \* self.filename_map: original path -> short path
  sh,             \* harness: per thread, its position inside shorten_filename
  returned,       \* history: the <<path, value>> pairs shorten_filename returned
  tree,           \* the extraction directory: relative path -> file or NoFile
  out,            \* the output directory without thumbnails/: path -> content
  thumbs,         \* output_dir/thumbnails: thumbnail file name -> content
  pc,             \* position of process_media_files (the main thread)
  walk,           \* fix_file_extensions: files of the glob still to visit
  fixed_files,    \* fix_file_extensions: stats["fixed_files"]
  profile_picture,\* the profile_picture argument / local of process_media_files
  media,          \* post_data: the media references of the posts, in order
  all_media,      \* process_media_files: the work list
  updated,        \* process_media_files: the shortened media references
  task,           \* per-file tasks: 0 is the profile picture, 1.. the work list
  dirs,           \* directories made under the output directory after __init__
  stats,          \* the counters thumbnail_count, webp_count, total_size_*
  thread_arg,     \* the thread_count argument of __init__ (0: None or 0)
  thread_count,   \* self.thread_count
  img             \* harness: the image generate_thumbnail is working on

hvars == <<sh>>
evars == <<thread_arg, thread_count, img>>

\* no image is being worked on
NoImage == [stage |-> "none", w |-> 0, h |-> 0, box |-> <<>>, size |-> <<>>]
pvars == <<tree, out, thumbs, pc, walk, fixed_files, profile_picture, media,
           all_media, updated, task, dirs, stats, evars>>
vars == <<filename_map, returned, hvars, pvars>>

\* a variant of the path computation that probes a numeric suffix when the
\* short path is already taken in filename_map
NewPathProbing(p) ==
  LET base == <<p[1], Md5Prefix8(p[2], p[3]), LowerExt(p[3])>>
      taken == \E q \in DOMAIN filename_map : filename_map[q] = base
  IN IF taken THEN <<p[1], "dfad42e6_1", LowerExt(p[3])>> ELSE base

\* shorten_filename, lines 73-89: the short path computed for original_path
NewPath(p) == <<p[1], Md5Prefix8(p[2], p[3]), LowerExt(p[3])>>

EmptyMap == [q \in {} |-> <<>>]

\* lines 44-47: the counters after __init__
ZeroStats ==
  [thumbnail_count |-> 0, webp_count |-> 0,
   total_size_original |-> 0, total_size_webp |-> 0]

Idle == [pc |-> "idle", path |-> <<>>, val |-> <<>>]

Threads == 1..NThreads

\* ------------------------------------------------ shorten_filename harness

\* a thread enters shorten_filename(p)
ShCall(t, p) ==
  /\ sh[t].pc = "idle"
  /\ sh' = [sh EXCEPT ![t] = [pc |-> "check", path |-> p, val |-> <<>>]]
  /\ UNCHANGED <<filename_map, returned, pvars>>

\* lines 62-71: data URI passes through, a mapped path returns its value
ShCheck(t) ==
  /\ sh[t].pc = "check"
  /\ LET p == sh[t].path IN
       IF IsDataURI(p) THEN
         /\ returned' = returned \cup {<<p, p>>}
         /\ sh' = [sh EXCEPT ![t] = Idle]
       ELSE IF p \in DOMAIN filename_map THEN
         /\ returned' = returned \cup {<<p, filename_map[p]>>}
         /\ sh' = [sh EXCEPT ![t] = Idle]
       ELSE
         /\ sh' = [sh EXCEPT ![t].pc = "compute"]
         /\ UNCHANGED returned
  /\ UNCHANGED <<filename_map, pvars>>

\* lines 73-89
ShCompute(t) ==
  /\ sh[t].pc = "compute"
  /\ sh' = [sh EXCEPT ![t].pc = "insert", ![t].val = NewPath(sh[t].path)]
  /\ UNCHANGED <<filename_map, returned, pvars>>

\* lines 92-94
ShInsert(t) ==
  /\ sh[t].pc = "insert"
  /\ filename_map' = (sh[t].path :> sh[t].val) @@ filename_map
  /\ returned' = returned \cup {<<sh[t].path, sh[t].val>>}
  /\ sh' = [sh EXCEPT ![t] = Idle]
  /\ UNCHANGED pvars

\* a second run: a new processor starts with an empty filename_map (line 50)
NewRun ==
  /\ \A t \in Threads : sh[t].pc = "idle"
  /\ filename_map # EmptyMap
  /\ filename_map' = EmptyMap
  /\ UNCHANGED <<sh, returned, pvars>>

InitShorten ==
  /\ filename_map = EmptyMap
  /\ sh = [t \in Threads |-> Idle]
  /\ returned = {}
  /\ tree = EmptyMap /\ out = EmptyMap /\ thumbs = EmptyMap
  /\ pc = "harness" /\ walk = {} /\ fixed_files = <<>>
  /\ profile_picture = <<>> /\ media = <<>> /\ all_media = <<>>
  /\ updated = <<>> /\ task = EmptyMap
  /\ dirs = {} /\ stats = ZeroStats
  /\ thread_arg = NThreads /\ thread_count = NThreads
  /\ img = NoImage

NextShorten ==
  \/ \E t \in Threads, p \in AllRefs : ShCall(t, p)
  \/ \E t \in Threads : ShCheck(t)
  \/ \E t \in Threads : ShCompute(t)
  \/ \E t \in Threads : ShInsert(t)
  \/ NewRun

SpecShorten == InitShorten /\ [][NextShorten]_vars

\* ------------------------------------------------------------ the pipeline

\* bounds of the pipeline model
MaxSize == 2      \* file sizes range over 1..MaxSize
MaxMedia == 2     \* number of media references in post_data
ThreadCount == 2  \* the largest thread_count argument given to __init__
CpuCount == 2     \* multiprocessing.cpu_count()

\* line 30: thread_count or max(1, multiprocessing.cpu_count() - 1)
ThreadCountOf(arg, cpus) ==
  IF arg # 0 THEN arg
  ELSE IF cpus - 1 >= 1 THEN cpus - 1 ELSE 1

\* the media references post_data may hold
PostRefs ==
  { <<"posts", "81354", ".jpg">>,
    <<"posts", "105375", ".jpg">>,
    <<"posts", "clip", ".mp4">>,
    <<"posts", "photo", ".heic">>,
    <<"posts", "pic", ".JPG">> } \cup DataRefs

ProfileRef == <<"media", "profile", ".jpg">>

\* no file at this path
NoFile ==
  [id |-> <<>>, mime |-> "none", size |-> 0, enc |-> 0,
   readable |-> FALSE, decodable |-> FALSE]

\* img.save raises instead of producing a WebP file
EncError == -1

\* what libmagic finds in the file at p of the archive: photo.heic holds JPEG
MimeOf(p) ==
  CASE p[3] = ".mp4" -> "video/mp4"
    [] OTHER -> "image/jpeg"

\* the files an image path can hold: size is st_size, enc the size of the
\* WebP file img.save writes (EncError: it raises), readable whether the file
\* can be opened, decodable whether PIL can decode it (for a video: whether
\* cv2 can be imported and reads a frame of it)
ImageFiles(p) ==
  { [id |-> p, mime |-> MimeOf(p), size |-> s, enc |-> e,
     readable |-> r, decodable |-> d] :
      s \in 1..MaxSize, e \in (0..(MaxSize + 1)) \cup {EncError},
      r \in BOOLEAN, d \in BOOLEAN }

\* one file per condition: a file that cannot be opened or decoded, or that
\* the encoder rejects, has size 1 (its size plays no part), an undecodable
\* file and a video have no enc, and enc is at most size + 1
Canonical(f) ==
  /\ (~f.readable => ~f.decodable)
  /\ (~f.decodable => f.enc = 0 /\ f.size = 1)
  /\ (f.mime = "video/mp4" => f.enc = 0)
  /\ (f.enc = EncError => f.size = 1)
  /\ f.enc <= f.size + 1

\* a genuine HEIC image under the name .heic, which PIL does not decode
HeicFiles(p) ==
  IF p[3] = ".heic"
    THEN { [id |-> p, mime |-> "image/heic", size |-> 1, enc |-> 0,
            readable |-> TRUE, decodable |-> FALSE] }
    ELSE {}

FilesAt(p) == { f \in ImageFiles(p) : Canonical(f) } \cup HeicFiles(p)

\* the profile picture is missing, unreadable, or an image whose WebP is
\* kept; the image is a JPEG, or a PNG under the name profile.jpg
ProfileFiles ==
  LET jpeg == { f \in FilesAt(ProfileRef) :
                  ~f.readable \/ (f.size = MaxSize /\ f.enc = MaxSize - 1) }
  IN jpeg \cup { [f EXCEPT !.mime = "image/png"] : f \in { g \in jpeg : g.readable } }

Range(s) == { s[i] : i \in 1..Len(s) }

MediaLists == UNION { [1..n -> PostRefs] : n \in 0..MaxMedia }

\* str(self.extraction_dir / p): the absolute path of a reference
Full(p) == <<"extraction_dir", p[1], p[2], p[3]>>

\* Path(full).relative_to(self.extraction_dir)
RelativeTo(f) == <<f[2], f[3], f[4]>>

\* paths of the extraction tree the model can hold
TreePaths ==
  (PostRefs \ DataRefs) \cup {ProfileRef, <<"media", "profile", ".png">>}
    \cup { <<"posts", stem, ext>> :
             stem \in {"photo", "photo_1", "photo_2", "photo_1_1", "photo_1_2"},
             ext \in {".jpg", ".png", ".bmp"} }
    \cup { <<"posts", "notes", ".txt">> }

\* Path.exists() of a path of the extraction directory
Exists(p) == p \in TreePaths /\ tree[p] # NoFile

NoTask == [ref |-> <<>>, pc |-> "none", short |-> <<>>, created |-> FALSE,
           conv |-> "none", thumb |-> "none", log |-> {}]

\* a variant of the calls that passes quiet=False
QuietArgFalse(i) == FALSE

\* line 233: quiet=True is the default of copy_file_to_distribution, and
\* lines 112 and 154 call it with the file alone; lines 262, 265 and 274 hand
\* the same quiet on to convert_to_webp and generate_thumbnail
QuietArg(i) == TRUE

\* "if not quiet: print(...)": the messages a step adds to the output
Emit(quiet, msg) == IF quiet THEN {} ELSE {msg}

TaskIds == 0..MaxMedia

Init ==
  /\ filename_map = EmptyMap
  /\ sh = [t \in Threads |-> Idle]
  /\ returned = {}
  /\ \E m \in MediaLists :
       /\ media = m
       /\ \E files \in [Range(m) -> UNION { FilesAt(p) \cup {NoFile} : p \in Range(m) }],
             prof \in ProfileFiles \cup {NoFile} :
            /\ \A p \in Range(m) :
                 files[p] \in IF IsDataURI(p) THEN {NoFile}
                              ELSE FilesAt(p) \cup {NoFile}
            /\ tree = [p \in TreePaths |->
                        IF p \in Range(m) THEN files[p]
                        ELSE IF p = ProfileRef THEN prof
                        ELSE NoFile]
  /\ out = EmptyMap
  /\ thumbs = EmptyMap
  /\ pc = "start"
  /\ walk = {}
  /\ fixed_files = <<>>
  /\ profile_picture = ProfileRef
  /\ all_media = <<>>
  /\ updated = <<>>
  /\ task = [i \in TaskIds |-> NoTask]
  /\ dirs = {}
  /\ stats = ZeroStats
  /\ thread_arg \in 0..ThreadCount
  /\ thread_count = ThreadCountOf(thread_arg, CpuCount)
  /\ img = NoImage

tvars == <<out, thumbs, task>>

\* ---- fix_file_extensions

\* lines 369-378: mime_to_ext
MimeToExt(mime) ==
  CASE mime = "image/jpeg" -> ".jpg"
    [] mime = "image/png" -> ".png"
    [] mime = "image/gif" -> ".gif"
    [] mime = "image/webp" -> ".webp"
    [] mime = "image/heic" -> ".heic"
    [] mime = "video/mp4" -> ".mp4"
    [] mime = "video/quicktime" -> ".mov"
    [] mime = "video/webm" -> ".webm"
    [] OTHER -> "none"

\* line 396: extensions that are never sniffed
Denylist == {".json", ".txt", ".srt", ".csv", ".html", ".xml", ".md"}

\* line 381 and 410
IsMediaMime(mime) ==
  mime \in {"image/jpeg", "image/png", "image/gif", "image/webp",
            "image/heic", "image/bmp", "image/tiff", "image/x-icon",
            "video/mp4", "video/quicktime", "video/webm", "video/x-msvideo"}

\* a variant that takes stem.ext whether or not it exists
RenameTargetNoProbe(p, ext) == <<p[1], p[2], ext>>

\* lines 423-430: the first free path among stem.ext, stem_1.ext, stem_2.ext
\* (the trees of the model hold at most two other files with that stem)
RenameTarget(p, ext) ==
  IF ~Exists(<<p[1], p[2], ext>>) THEN <<p[1], p[2], ext>>
  ELSE IF ~Exists(<<p[1], p[2] \o "_1", ext>>) THEN <<p[1], p[2] \o "_1", ext>>
  ELSE <<p[1], p[2] \o "_2", ext>>

\* line 100 and line 386: the call, and the list of the glob
FixBegin ==
  /\ pc = "start"
  /\ pc' = "fix"
  /\ walk' = { p \in TreePaths : Exists(p) }
  /\ UNCHANGED <<filename_map, returned, hvars, evars, dirs, stats, tree, tvars, fixed_files,
                 profile_picture, media, all_media, updated>>

\* line 419: mimetypes.guess_extension(file_mime), "none" for None
GuessExtension(mime) ==
  CASE mime = "image/bmp" -> ".bmp"
    [] mime = "image/tiff" -> ".tiff"
    [] mime = "video/x-msvideo" -> ".avi"
    [] OTHER -> "none"

\* lines 415-419: mime_to_ext.get(file_mime), else guess_extension, else
\* the current extension
CorrectExt(p) ==
  LET mime == tree[p].mime IN
    IF MimeToExt(mime) # "none" THEN MimeToExt(mime)
    ELSE IF GuessExtension(mime) # "none" THEN GuessExtension(mime)
    ELSE LowerExt(p[3])

\* whether the loop body renames the file at p (lines 395-422): its
\* extension is not denylisted, libmagic can read it (a sniffing error is
\* caught at line 447), it is a media file, and its extension is not the
\* correct one
NeedsRename(p) ==
  /\ Exists(p)
  /\ LowerExt(p[3]) \notin Denylist
  /\ tree[p].readable
  /\ IsMediaMime(tree[p].mime)
  /\ CorrectExt(p) # LowerExt(p[3])

\* lines 386-449: one iteration of the loop
FixFile(p) ==
  /\ pc = "fix"
  /\ p \in walk
  /\ walk' = walk \ {p}
  /\ IF NeedsRename(p) THEN
       LET ext == CorrectExt(p)
           new == RenameTarget(p, ext) IN
         /\ tree' = [tree EXCEPT ![p] = NoFile, ![new] = tree[p]]
         /\ fixed_files' = Append(fixed_files,
              [old_path |-> Full(p), new_path |-> Full(new),
               old_type |-> LowerExt(p[3]), new_type |-> ext])
     ELSE UNCHANGED <<tree, fixed_files>>
  /\ UNCHANGED <<filename_map, returned, hvars, evars, dirs, stats, tvars, pc, profile_picture,
                 media, all_media, updated>>

\* line 473: stats["path_mapping"]
PathMapping ==
  [ o \in { fixed_files[i].old_path : i \in 1..Len(fixed_files) } |->
      fixed_files[CHOOSE i \in 1..Len(fixed_files) :
         /\ fixed_files[i].old_path = o
         /\ \A j \in 1..Len(fixed_files) :
              fixed_files[j].old_path = o => j <= i].new_path ]

\* ---- shorten_filename, called in one step

\* lines 62-94: the value shorten_filename(p) returns
ShortenValue(p) ==
  IF IsDataURI(p) THEN p
  ELSE IF p \in DOMAIN filename_map THEN filename_map[p]
  ELSE NewPath(p)

\* lines 70-92: filename_map after shorten_filename(p)
ShortenMap(p) ==
  IF IsDataURI(p) \/ p \in DOMAIN filename_map THEN filename_map
  ELSE (p :> NewPath(p)) @@ filename_map

\* ---- process_media_files, the main thread up to the worker pool

\* the cwd-relative Path(profile_picture) of line 113: the process does not
\* run inside the extraction directory
CwdHasFile(p) == FALSE

\* a variant in which the per-file work does not wait for the pass
FixDoneEarly == TRUE

\* the global pass has returned: its loop has visited the whole list
FixDone == walk = {}

\* lines 104-111: the pass has returned; the profile picture is looked up in
\* path_mapping (whose keys are absolute paths) and shortened
FixEnd ==
  /\ pc = "fix"
  /\ FixDone
  /\ LET pp == IF profile_picture \in DOMAIN PathMapping
               THEN PathMapping[profile_picture] ELSE profile_picture IN
       /\ profile_picture' = pp
       /\ filename_map' = ShortenMap(pp)
       /\ returned' = returned \cup {<<pp, ShortenValue(pp)>>}
       /\ task' = [task EXCEPT ![0] =
                     [NoTask EXCEPT !.ref = pp, !.pc = "begin"]]
  /\ pc' = "profile_copy"
  /\ UNCHANGED <<hvars, evars, dirs, stats, tree, out, thumbs, walk, fixed_files, media,
                 all_media, updated>>

Terminal == {"done", "skipped", "raised", "cancelled"}

\* line 112 raised: the exception leaves process_media_files
ProfileRaised ==
  /\ pc = "profile_copy"
  /\ task[0].pc = "raised"
  /\ pc' = "raised"
  /\ UNCHANGED <<filename_map, returned, hvars, evars, dirs, stats, tree, tvars, walk, fixed_files,
                 profile_picture, media, all_media, updated>>

\* thumbnail file name: hashlib.md5(str(relative_path)).hexdigest() + ".webp"
ThumbName(rel) == <<"md5", rel>>

\* line 113: generate_thumbnail(profile_picture, shortened_profile), whose
\* source is the reference itself, not the file under the extraction directory
ProfileThumb ==
  /\ pc = "profile_copy"
  /\ task[0].pc \in {"done", "skipped"}
  /\ pc' = "collect"
  \* the thumbnail exists (line 493), or the source does not (line 502),
  \* which this call, made without quiet, reports (lines 503-504)
  /\ \/ /\ ThumbName(ShortenValue(profile_picture)) \in DOMAIN thumbs
        /\ UNCHANGED task
     \/ /\ ThumbName(ShortenValue(profile_picture)) \notin DOMAIN thumbs
        /\ ~CwdHasFile(profile_picture)
        /\ task' = [task EXCEPT ![0].log = @ \cup Emit(FALSE, "thumb_error")]
  /\ UNCHANGED <<filename_map, returned, hvars, evars, dirs, stats, tree, out, thumbs,
                 walk, fixed_files, profile_picture, media, all_media, updated>>

\* a variant that never looks the reference up in path_mapping
CorrectedUrlSame(url) == url

\* lines 128-131: the reference, or the renamed path relative to the
\* extraction directory when the pass renamed its file
CorrectedUrl(url) ==
  IF Full(url) \in DOMAIN PathMapping
    THEN RelativeTo(PathMapping[Full(url)])
    ELSE url

\* lines 126-138: one iteration of the loop over the media of the posts
CollectItem ==
  /\ pc = "collect"
  /\ Len(all_media) < Len(media)
  /\ LET url == media[Len(all_media) + 1]
         media_url == CorrectedUrl(url) IN
       /\ all_media' = Append(all_media, media_url)
       /\ updated' = Append(updated, ShortenValue(media_url))
       /\ filename_map' = ShortenMap(media_url)
       /\ returned' = returned \cup {<<media_url, ShortenValue(media_url)>>}
  /\ UNCHANGED <<hvars, evars, dirs, stats, tree, tvars, pc, walk, fixed_files, profile_picture,
                 media>>

\* lines 150-153: executor.map submits one task per entry of all_media
PoolSubmit ==
  /\ pc = "collect"
  /\ Len(all_media) = Len(media)
  /\ pc' = "pool"
  /\ task' = [i \in TaskIds |->
                IF i \in 1..Len(all_media)
                  THEN [NoTask EXCEPT !.ref = all_media[i], !.pc = "pending"]
                  ELSE task[i]]
  /\ UNCHANGED <<filename_map, returned, hvars, evars, dirs, stats, tree, out, thumbs, walk,
                 fixed_files, profile_picture, media, all_media, updated>>

Running(i) == task[i].pc \notin (Terminal \cup {"none", "pending"})

\* lines 150-158: the main thread takes the results in order; the first
\* task that raised (those before it have ended) raises from its result, and
\* that cancels the tasks not started yet
PoolResult ==
  /\ pc = "pool"
  /\ \E i \in 1..Len(all_media) :
       /\ task[i].pc = "raised"
       /\ \A j \in 1..(i - 1) : task[j].pc \in {"done", "skipped"}
  /\ pc' = "abort"
  /\ task' = [i \in TaskIds |->
                IF task[i].pc = "pending"
                  THEN [task[i] EXCEPT !.pc = "cancelled"]
                  ELSE task[i]]
  /\ UNCHANGED <<filename_map, returned, hvars, evars, dirs, stats, tree, out, thumbs, walk,
                 fixed_files, profile_picture, media, all_media, updated>>

\* a variant of the pool that is left without waiting
PoolJoinedNoWait == TRUE

\* line 150, the end of the with block: shutdown(wait=True) returns when no
\* task is running
PoolJoined == \A i \in TaskIds : ~Running(i)

\* the with block ends: shutdown(wait=True) waits for the running tasks, then
\* the exception leaves process_media_files
PoolAbort ==
  /\ pc = "abort"
  /\ PoolJoined
  /\ pc' = "raised"
  /\ UNCHANGED <<filename_map, returned, hvars, evars, dirs, stats, tree, tvars, walk, fixed_files,
                 profile_picture, media, all_media, updated>>

\* lines 214-231: what one existing original adds to total_size_webp: the
\* size of the WebP sibling of its short path, else of the file at its short
\* path, else nothing
OutputSize(p) ==
  LET short == ShortenValue(p)
      webp_path == <<short[1], short[2], ".webp">> IN
    IF webp_path \in DOMAIN out THEN out[webp_path].size
    ELSE IF short \in DOMAIN out THEN out[short].size
    ELSE 0

\* lines 185-231: _calculate_space_savings over the set processed_files of
\* the media references of post_data
CalcStats(processed_files) ==
  LET existing == { p \in processed_files : Exists(p) }
      HasWebp(p) == LET short == ShortenValue(p) IN
                      <<short[1], short[2], ".webp">> \in DOMAIN out
      RECURSIVE sum(_, _)
      sum(S, kind) ==
        IF S = {} THEN 0
        ELSE LET p == CHOOSE q \in S : TRUE IN
               (IF kind = "original" THEN tree[p].size ELSE OutputSize(p))
                 + sum(S \ {p}, kind) IN
    [thumbnail_count |-> Cardinality(DOMAIN thumbs),
     webp_count |-> stats.webp_count
                      + Cardinality({ p \in existing : HasWebp(p) }),
     total_size_original |-> sum(existing, "original"),
     total_size_webp |-> sum(existing, "output")]

\* lines 160-183: _calculate_space_savings shortens every original media
\* reference again; then process_media_files returns
StatsAndReturn ==
  /\ pc = "pool"
  /\ \A i \in 1..Len(all_media) : task[i].pc \in {"done", "skipped"}
  /\ pc' = "returned"
  /\ LET RECURSIVE fold(_, _)
         fold(S, m) ==
           IF S = {} THEN m
           ELSE LET p == CHOOSE q \in S : TRUE IN
                  fold(S \ {p},
                       IF IsDataURI(p) \/ p \in DOMAIN m THEN m
                       ELSE (p :> NewPath(p)) @@ m) IN
       /\ filename_map' = fold(Range(media), filename_map)
       /\ returned' = returned \cup
            { <<p, ShortenValue(p)>> : p \in Range(media) }
       /\ stats' = CalcStats(Range(media))
  /\ UNCHANGED <<hvars, evars, dirs, tree, tvars, walk, fixed_files,
                 profile_picture, media, all_media, updated>>

\* ---- the per-file task: copy_file_to_distribution

\* line 255
IsImage(p) == LowerExt(p[3]) \in {".jpg", ".jpeg", ".png", ".gif"}

\* lines 256 and 508
IsVideo(p) == LowerExt(p[3]) \in {".mp4", ".mov", ".avi", ".webm"}

\* lines 260-262: str(destination).replace(destination.suffix, ".webp")
WebpDest(short) == <<short[1], short[2], ".webp">>

\* a variant that leaves the .webp suffix in place
OrigDestWebp(short, ref) == <<short[1], short[2], ".webp">>

\* lines 310-313 and 324-327: str(destination_path).replace(".webp", ext)
\* with the suffix of the source path
OrigDest(short, ref) == <<short[1], short[2], ref[3]>>

\* a file of the output directory: a copy of, a WebP of, or a thumbnail of the
\* source file src; writers are the tasks that hold it open for writing
Content(kind, f, size, writers) ==
  [kind |-> kind, src |-> f.id, size |-> size, writers |-> writers]

\* a task that the thread pool (or, for task 0, the main thread) is running
Runnable(i) ==
  \/ i = 0 /\ pc = "profile_copy"
  \/ i >= 1 /\ pc \in {"pool", "abort"}

\* a variant without the check of line 249
SourceMissingNever(ref) == FALSE

\* lines 249-252: the source file does not exist
SourceMissing(ref) == ~Exists(ref)

\* a variant that names the thumbnail after the reference itself
ThumbKeyArgLogical(i) == task[i].ref

\* lines 266 and 274: the relative_path argument of generate_thumbnail
ThumbKeyArg(i) == task[i].short

mvars == <<hvars, evars, stats, tree, pc, walk, fixed_files, profile_picture, media,
           all_media, updated>>

\* a variant of the pool that starts a thread for every task
PoolHasIdleWorkerAlways == TRUE

\* line 150: the pool has at most max_workers = self.thread_count threads,
\* each running one task at a time
PoolHasIdleWorker ==
  Cardinality({ j \in TaskIds : j >= 1 /\ Running(j) }) < thread_count

\* a worker of the pool takes the next task of the queue
TStart(i) ==
  /\ i >= 1
  /\ pc = "pool"
  /\ task[i].pc = "pending"
  /\ \A j \in 1..(i - 1) : task[j].pc # "pending"
  /\ PoolHasIdleWorker
  /\ task' = [task EXCEPT ![i].pc = "begin"]
  /\ UNCHANGED <<filename_map, returned, out, thumbs, mvars, dirs>>

\* lines 33-41: the directories __init__ makes (media, media/posts,
\* media/other), as the references of the model name them
InitDirs == {"media", "posts", "other"}

\* line 246: destination.parent.mkdir(parents=True, exist_ok=True) makes the
\* directory of the destination when it is not there
MadeDirs(short) == {short[1]} \ InitDirs

\* lines 236-256: data URI, shorten, source.exists(), image or not; for an
\* image, lines 281-289: Image.open and convert, whose failure enters the
\* handler of line 319
TBegin(i) ==
  /\ Runnable(i)
  /\ task[i].pc = "begin"
  /\ LET ref == task[i].ref IN
       IF IsDataImage(ref) THEN
         /\ task' = [task EXCEPT ![i].pc = "done"]
         /\ UNCHANGED <<filename_map, returned, dirs>>
       ELSE
         /\ filename_map' = ShortenMap(ref)
         /\ dirs' = dirs \cup MadeDirs(ShortenValue(ref))
         /\ returned' = returned \cup {<<ref, ShortenValue(ref)>>}
         /\ task' = [task EXCEPT
              ![i].short = ShortenValue(ref),
              ![i].log = IF SourceMissing(ref)
                           THEN @ \cup Emit(QuietArg(i), "missing") ELSE @,
              ![i].pc = IF SourceMissing(ref) THEN "skipped"
                        ELSE IF ~IsImage(ref) THEN "copy"
                        ELSE IF tree[ref].decodable THEN "cv_save"
                        ELSE "cv_except"]
  /\ UNCHANGED <<out, thumbs, mvars>>

\* line 270: shutil.copy2 of a video or another file; lines 273-275
TCopy(i) ==
  /\ Runnable(i)
  /\ task[i].pc = "copy"
  /\ LET ref == task[i].ref IN
       IF ~tree[ref].readable THEN
         /\ task' = [task EXCEPT ![i].pc = "raised"]
         /\ UNCHANGED out
       ELSE
         /\ out' = (task[i].short :>
                      Content("copy", tree[ref], tree[ref].size, {})) @@ out
         /\ task' = [task EXCEPT
              ![i].pc = IF IsVideo(ref) THEN "thumb" ELSE "done"]
  /\ UNCHANGED <<filename_map, returned, thumbs, mvars, dirs>>

\* ---- convert_to_webp

\* line 292, first half: img.save opens the file for writing ("w+b"), which
\* creates or truncates it, and has written part of it
TCvSaveBegin(i) ==
  /\ Runnable(i)
  /\ task[i].pc = "cv_save"
  /\ LET w == WebpDest(task[i].short)
         f == tree[task[i].ref]
         old == IF w \in DOMAIN out THEN out[w].writers ELSE {} IN
       \E part \in 0..(IF f.enc > 0 THEN f.enc - 1 ELSE 0) :
         /\ out' = (w :> Content("webp", f, part, old \cup {i})) @@ out
         /\ task' = [task EXCEPT ![i].pc = "cv_saved",
                                 ![i].created = w \notin DOMAIN out]
  /\ UNCHANGED <<filename_map, returned, thumbs, mvars, dirs>>

\* line 292, second half: img.save has written the file; when the encoder
\* raises, PIL removes the file if this call created it
TCvSaveEnd(i) ==
  /\ Runnable(i)
  /\ task[i].pc = "cv_saved"
  /\ LET w == WebpDest(task[i].short)
         f == tree[task[i].ref]
         mine == w \in DOMAIN out /\ i \in out[w].writers IN
       IF f.enc = EncError THEN
         /\ out' = IF task[i].created /\ w \in DOMAIN out
                     THEN [p \in DOMAIN out \ {w} |-> out[p]]
                   ELSE IF mine
                     THEN [out EXCEPT ![w].writers = @ \ {i}]
                   ELSE out
         /\ task' = [task EXCEPT ![i].pc = "cv_except"]
       ELSE
         /\ out' = IF mine
                     THEN [out EXCEPT ![w] =
                             Content("webp", f, f.enc, out[w].writers \ {i})]
                     ELSE out
         /\ task' = [task EXCEPT ![i].pc = "cv_stat"]
  /\ UNCHANGED <<filename_map, returned, thumbs, mvars, dirs>>

\* a variant that also keeps a WebP file of the size of the original
KeepWebpLeq(webp_size, original_size) ==
  webp_size > 0 /\ webp_size <= original_size

\* the WebP file is kept (line 298)
KeepWebp(webp_size, original_size) ==
  webp_size > 0 /\ webp_size < original_size

\* lines 295-303: the two sizes are read and compared
TCvStat(i) ==
  /\ Runnable(i)
  /\ task[i].pc = "cv_stat"
  /\ LET w == WebpDest(task[i].short)
         f == tree[task[i].ref] IN
       IF w \notin DOMAIN out THEN
         task' = [task EXCEPT ![i].pc = "cv_except"]
       ELSE IF KeepWebp(out[w].size, f.size) THEN
         task' = [task EXCEPT ![i].pc = "thumb", ![i].conv = "kept",
                              ![i].log = @ \cup Emit(QuietArg(i), "converted")]
       ELSE
         task' = [task EXCEPT ![i].pc = "cv_unlink"]
  /\ UNCHANGED <<filename_map, returned, out, thumbs, mvars, dirs>>

\* lines 306-307: the WebP file is removed if it exists.  When another task
\* removes it between exists() and unlink(), unlink raises and the handler of
\* line 319 makes the copy (lines 324-329) that lines 310-314 make
TCvUnlink(i) ==
  /\ Runnable(i)
  /\ task[i].pc = "cv_unlink"
  /\ LET w == WebpDest(task[i].short) IN
       out' = [p \in DOMAIN out \ {w} |-> out[p]]
  /\ task' = [task EXCEPT ![i].pc = "cv_copy"]
  /\ UNCHANGED <<filename_map, returned, thumbs, mvars, dirs>>

\* lines 310-318: the fallback copy under the extension of the source
TCvCopy(i) ==
  /\ Runnable(i)
  /\ task[i].pc = "cv_copy"
  /\ LET ref == task[i].ref IN
       IF ~tree[ref].readable THEN
         /\ task' = [task EXCEPT ![i].pc = "cv_except"]
         /\ UNCHANGED out
       ELSE
         /\ out' = (OrigDest(task[i].short, ref) :>
                      Content("copy", tree[ref], tree[ref].size, {})) @@ out
         /\ task' = [task EXCEPT ![i].pc = "thumb", ![i].conv = "fallback",
                 ![i].log = @ \cup Emit(QuietArg(i), "webp_larger")]
  /\ UNCHANGED <<filename_map, returned, thumbs, mvars, dirs>>

\* lines 319-330: the handler copies the source; a failing copy raises
TCvExcept(i) ==
  /\ Runnable(i)
  /\ task[i].pc = "cv_except"
  /\ LET ref == task[i].ref IN
       IF ~tree[ref].readable THEN
         /\ task' = [task EXCEPT ![i].pc = "raised",
                 ![i].log = @ \cup Emit(QuietArg(i), "convert_error")]
         /\ UNCHANGED out
       ELSE
         /\ out' = (OrigDest(task[i].short, ref) :>
                      Content("copy", tree[ref], tree[ref].size, {})) @@ out
         /\ task' = [task EXCEPT ![i].pc = "thumb", ![i].conv = "error",
                 ![i].log = @ \cup Emit(QuietArg(i), "convert_error")]
  /\ UNCHANGED <<filename_map, returned, thumbs, mvars, dirs>>

\* ---- generate_thumbnail

\* a variant that never finds the thumbnail
ThumbCachedNever(key) == FALSE

\* line 493: thumb_path.exists()
ThumbCached(key) == key \in DOMAIN thumbs

\* lines 489-557: an existing thumbnail is returned at once; otherwise the
\* source is decoded: a frame of a video by cv2, an image by PIL, and any
\* failure (cv2 cannot be imported, no frame, no image) returns None
TThumbCheck(i) ==
  /\ Runnable(i)
  /\ task[i].pc = "thumb"
  /\ LET ref == task[i].ref IN
       task' = IF ThumbCached(ThumbName(ThumbKeyArg(i)))
                 THEN [task EXCEPT ![i].pc = "done", ![i].thumb = "existing"]
               ELSE IF Exists(ref) /\ tree[ref].decodable
                 THEN [task EXCEPT ![i].pc = "th_save"]
               ELSE [task EXCEPT ![i].pc = "done", ![i].thumb = "failed",
                       ![i].log = @ \cup Emit(QuietArg(i), "thumb_error")]
  /\ UNCHANGED <<filename_map, returned, out, thumbs, mvars, dirs>>

\* line 579, first half: img.save opens thumb_path for writing
TThumbSaveBegin(i) ==
  /\ Runnable(i)
  /\ task[i].pc = "th_save"
  /\ LET k == ThumbName(ThumbKeyArg(i))
         old == IF k \in DOMAIN thumbs THEN thumbs[k].writers ELSE {} IN
       /\ thumbs' = (k :> Content("thumb", tree[task[i].ref], 0, old \cup {i}))
                      @@ thumbs
       /\ task' = [task EXCEPT ![i].pc = "th_saved",
                               ![i].created = k \notin DOMAIN thumbs]
  /\ UNCHANGED <<filename_map, returned, out, mvars, dirs>>

\* line 579, second half, and line 581: the thumbnail is written (into a
\* file that is no longer at the cache path when another call removed it)
TThumbSaveEnd(i) ==
  /\ Runnable(i)
  /\ task[i].pc = "th_saved"
  /\ LET k == ThumbName(ThumbKeyArg(i)) IN
       thumbs' = IF k \in DOMAIN thumbs
                   THEN [thumbs EXCEPT ![k] =
                           Content("thumb", tree[task[i].ref], 1,
                                   thumbs[k].writers \ {i})]
                 ELSE thumbs
  /\ task' = [task EXCEPT ![i].pc = "done", ![i].thumb = "made"]
  /\ UNCHANGED <<filename_map, returned, out, mvars, dirs>>

\* lines 579 and 583-586: the write of img.save fails (the disk is full, an
\* I/O error); PIL closes the file and removes it if this call created it,
\* the handler prints the error and returns None
TThumbSaveFail(i) ==
  /\ Runnable(i)
  /\ task[i].pc = "th_saved"
  /\ LET k == ThumbName(ThumbKeyArg(i)) IN
       thumbs' = IF k \notin DOMAIN thumbs THEN thumbs
                 ELSE IF task[i].created
                   THEN [q \in DOMAIN thumbs \ {k} |-> thumbs[q]]
                 ELSE [thumbs EXCEPT ![k].writers = @ \ {i}]
  /\ task' = [task EXCEPT ![i].pc = "done", ![i].thumb = "failed",
                          ![i].log = @ \cup Emit(QuietArg(i), "thumb_error")]
  /\ UNCHANGED <<filename_map, returned, out, mvars, dirs>>

\* ---- the specification of the pipeline

TaskStep(i) ==
  \/ TStart(i)
  \/ TBegin(i)
  \/ TCopy(i)
  \/ TCvSaveBegin(i)
  \/ TCvSaveEnd(i)
  \/ TCvStat(i)
  \/ TCvUnlink(i)
  \/ TCvCopy(i)
  \/ TCvExcept(i)
  \/ TThumbCheck(i)
  \/ TThumbSaveBegin(i)
  \/ TThumbSaveEnd(i)

Next ==
  \/ FixBegin
  \/ \E p \in TreePaths : FixFile(p)
  \/ FixEnd
  \/ ProfileRaised
  \/ ProfileThumb
  \/ CollectItem
  \/ PoolSubmit
  \/ PoolResult
  \/ PoolAbort
  \/ StatsAndReturn
  \/ \E i \in TaskIds : TaskStep(i)

Spec == Init /\ [][Next]_vars

\* the pipeline on an output volume whose writes of thumbnails can fail
NextThumbFault ==
  \/ Next
  \/ \E i \in TaskIds : TThumbSaveFail(i)

SpecThumbFault == Init /\ [][NextThumbFault]_vars

\* ---- the extension-correction pass on its own

\* what libmagic can find in a file of the trees of the pass: two types of
\* the table, a media type mimetypes knows (image/bmp), a media type it does
\* not know (image/x-icon), and a type that is no media type
FixMimes ==
  {"image/jpeg", "image/png", "image/bmp", "image/x-icon", "application/pdf"}

\* the files of the trees of the pass
FixSources ==
  { <<"posts", "photo", ".heic">>, <<"posts", "photo", ".jpg">>,
    <<"posts", "photo_1", ".jpg">>, <<"posts", "notes", ".txt">> }

\* the files a path of the tree can hold: a readable file of each type, or
\* a file libmagic cannot open; notes.txt holds JPEG data
FixFilesAt(p) ==
  IF p = <<"posts", "notes", ".txt">>
    THEN { [id |-> p, mime |-> "image/jpeg", size |-> 1, enc |-> 0,
            readable |-> TRUE, decodable |-> TRUE] }
    ELSE { [id |-> p, mime |-> m, size |-> 1, enc |-> 0,
            readable |-> TRUE, decodable |-> TRUE] : m \in FixMimes }
           \cup { [id |-> p, mime |-> "image/png", size |-> 1, enc |-> 0,
                   readable |-> FALSE, decodable |-> FALSE] }

\* a processor constructed on an extraction directory with any of these files
InitFix ==
  /\ filename_map = EmptyMap
  /\ sh = [t \in Threads |-> Idle]
  /\ returned = {}
  /\ \E files \in [FixSources ->
                     UNION { FixFilesAt(p) \cup {NoFile} : p \in FixSources }] :
       /\ \A p \in FixSources : files[p] \in FixFilesAt(p) \cup {NoFile}
       /\ tree = [p \in TreePaths |->
                    IF p \in FixSources THEN files[p] ELSE NoFile]
  /\ out = EmptyMap
  /\ thumbs = EmptyMap
  /\ pc = "start"
  /\ walk = {}
  /\ fixed_files = <<>>
  /\ profile_picture = ProfileRef
  /\ media = <<>>
  /\ all_media = <<>>
  /\ updated = <<>>
  /\ task = [i \in TaskIds |-> NoTask]
  /\ dirs = {}
  /\ stats = ZeroStats
  /\ thread_arg = 0
  /\ thread_count = ThreadCountOf(0, CpuCount)
  /\ img = NoImage

\* process_media_files up to the return of fix_file_extensions (line 100)
NextFix ==
  \/ FixBegin
  \/ \E p \in TreePaths : FixFile(p)

SpecFix == InitFix /\ [][NextFix]_vars

\* ----------------------------------------------------------------- claims

\* C1: two distinct non-data-URI paths never get the same short path in
\* filename_map (a collision is resolved by a numeric suffix).
C1_Injective ==
  \A p1, p2 \in DOMAIN filename_map :
    p1 # p2 => filename_map[p1] # filename_map[p2]

\* C2: shorten_filename is deterministic: every call for a path p returns
\* the same short path, whatever was shortened before, however the calls of
\* the threads interleave, and in a second run.
C2_Deterministic ==
  \A x, y \in returned : x[1] = y[1] => x[2] = y[2]

\* C2 witness: two threads raced on the same unmapped path (both passed the
\* check) and one of them has already returned, in a second run or first.
C2_Witness ==
  \E t \in Threads :
    /\ sh[t].pc = "insert"
    /\ sh[t].path \in DOMAIN filename_map
    /\ \E x \in returned : x[1] = sh[t].path
    /\ Cardinality(DOMAIN filename_map) >= 2

\* ---- claims about the pipeline

\* the per-file tasks of images whose source exists
ImageTasks ==
  { i \in TaskIds : task[i].pc # "none" /\ IsImage(task[i].ref)
                    /\ Exists(task[i].ref) }

\* task i takes a step
Steps(i) == task'[i] # task[i]

\* C3: convert_to_webp never inflates: it keeps the WebP file only when the
\* file is not empty and strictly smaller than the source; in every other
\* case it goes on to the fallback, and when it returns False the file it
\* leaves is the copy of the source, of the size of the source.
C3_NeverInflates ==
  [][\A i \in TaskIds :
       /\ (Steps(i) /\ task[i].pc = "cv_stat") =>
            LET w == <<task[i].short[1], task[i].short[2], ".webp">>
                small == /\ w \in DOMAIN out
                         /\ out[w].size > 0
                         /\ out[w].size < tree[task[i].ref].size IN
              /\ (task'[i].conv = "kept") <=> small
              /\ small => (task'[i].pc = "thumb" /\ out' = out)
              /\ ~small => task'[i].pc \in {"cv_unlink", "cv_except"}
       /\ (Steps(i) /\ task'[i].conv \in {"fallback", "error"}
             /\ task[i].conv = "none") =>
            LET o == <<task[i].short[1], task[i].short[2], task[i].ref[3]>> IN
              /\ o \in DOMAIN out'
              /\ out'[o].kind = "copy"
              /\ out'[o].src = tree[task[i].ref].id
              /\ out'[o].size <= tree[task[i].ref].size
    ]_vars

\* C3 witness: a WebP file of exactly the size of its source was not kept,
\* and another one, smaller than its source, was
C3_Witness ==
  \E i, j \in ImageTasks :
    /\ task[i].conv = "fallback"
    /\ tree[task[i].ref].enc = tree[task[i].ref].size
    /\ task[j].conv = "kept"

\* C4: after a run, every image reference whose source exists has exactly
\* one representation in the output: the .webp sibling of its short path, or
\* the copy under the extension of the source.
C4_ExactlyOne ==
  pc = "returned" =>
    \A i \in ImageTasks :
      LET w == <<task[i].short[1], task[i].short[2], ".webp">>
          o == <<task[i].short[1], task[i].short[2], task[i].ref[3]>> IN
        (w \in DOMAIN out) # (o \in DOMAIN out)

\* the run holds two different references with one short path
Collides ==
  \E p, q \in DOMAIN filename_map : p # q /\ filename_map[p] = filename_map[q]

\* C4 without the references whose short paths collide
C4_ExactlyOneNoCollision == Collides \/ C4_ExactlyOne

\* C4 witness: a run returned with an image whose WebP was kept and an
\* image that fell back to the copy, their short paths being the same
C4_Witness ==
  /\ pc = "returned"
  /\ Collides
  /\ \E i, j \in ImageTasks : task[i].conv = "kept" /\ task[j].conv = "fallback"

Started(i) == task[i].pc \notin {"none", "pending", "begin", "cancelled"}

\* the reference of task i names a file, and the file does not exist
MissingSource(i) == ~IsDataImage(task[i].ref) /\ ~Exists(task[i].ref)

\* C5: a reference whose source file is missing ends in Skipped without
\* raising and writes no file; the run raises only because of a file that
\* exists, and a run that returns has processed every existing reference.
C5_MissingIsSkipped ==
  /\ [](\A i \in TaskIds :
          (Started(i) /\ MissingSource(i)) => task[i].pc = "skipped")
  /\ [](pc \in {"abort", "raised"} =>
          \E i \in TaskIds : task[i].pc = "raised" /\ Exists(task[i].ref))
  /\ [](pc = "returned" =>
          \A i \in 1..Len(all_media) :
            task[i].pc = IF MissingSource(i) THEN "skipped" ELSE "done")
  /\ [][\A i \in TaskIds :
          (Steps(i) /\ task'[i].pc = "skipped") =>
             (out' = out /\ thumbs' = thumbs)]_vars

\* C5 witness: the run returned, having skipped a missing file and processed
\* a later one
C5_Witness ==
  /\ pc = "returned"
  /\ \E i, j \in 1..Len(all_media) :
       i < j /\ task[i].pc = "skipped" /\ task[j].pc = "done"

\* C6: no failure while handling one file of the work list leaves its task
\* or stops the run: no task ends by raising, none is cancelled, and
\* process_media_files is not left by an exception.
C6_NoErrorPropagates ==
  /\ pc # "abort"
  /\ \A i \in 1..Len(all_media) : task[i].pc \notin {"raised", "cancelled"}

\* C7: when PIL cannot decode or cannot encode a readable image,
\* convert_to_webp does not raise: it returns False, and as it returns the
\* copy of the source is at the destination under the extension of the source.
C7_ErrorFallback ==
  /\ [](\A i \in ImageTasks :
          task[i].pc = "raised" => ~tree[task[i].ref].readable)
  /\ [](\A i \in ImageTasks :
          LET f == tree[task[i].ref] IN
            ( /\ f.readable
              /\ (~f.decodable \/ f.enc = EncError)
              /\ task[i].pc \in {"thumb", "th_save", "th_saved", "done"} )
            => task[i].conv = "error")
  /\ [][\A i \in TaskIds :
          (Steps(i) /\ task'[i].conv = "error" /\ task[i].conv = "none") =>
            LET o == <<task[i].short[1], task[i].short[2], task[i].ref[3]>> IN
              /\ task'[i].pc = "thumb"
              /\ o \in DOMAIN out'
              /\ out'[o].kind = "copy"
              /\ out'[o].src = tree[task[i].ref].id
              /\ out'[o].size = tree[task[i].ref].size]_vars

\* C7 witness: one image that PIL could not decode and one it could not
\* encode have both gone through the handler
C7_Witness ==
  \E i, j \in ImageTasks :
    /\ task[i].conv = "error" /\ tree[task[i].ref].readable
    /\ ~tree[task[i].ref].decodable
    /\ task[j].conv = "error" /\ tree[task[j].ref].enc = EncError

\* the reference of task i as it appears in the source data
LogicalRef(i) == IF i = 0 THEN ProfileRef ELSE media[i]

\* the short path process_media_files hands back for the reference of task i
HandedBack(i) == IF i = 0 THEN ShortenValue(profile_picture) ELSE updated[i]

C9_ThumbIdempotent ==
  [][ /\ \A i \in TaskIds :
           ( /\ Steps(i)
             /\ task[i].pc = "thumb"
             /\ <<"md5", task[i].short>> \in DOMAIN thumbs )
           => ( /\ task'[i].pc = "done"
                /\ task'[i].thumb = "existing"
                /\ thumbs' = thumbs )
      /\ ( /\ pc = "profile_copy"
           /\ pc' = "collect"
           /\ <<"md5", task[0].short>> \in DOMAIN thumbs )
         => thumbs' = thumbs
    ]_vars

\* C9 witness: a task found the thumbnail of its key and returned it, and the
\* call of line 113 found the thumbnail of the profile picture
C9_Witness ==
  /\ pc \in {"collect", "pool", "returned"}
  /\ \E i \in 1..Len(all_media) : task[i].thumb = "existing"
  /\ <<"md5", task[0].short>> \in DOMAIN thumbs

\* some per-file work has begun
PerFileStarted ==
  \/ filename_map # EmptyMap
  \/ out # EmptyMap
  \/ thumbs # EmptyMap
  \/ \E i \in TaskIds : task[i].pc # "none"

\* C10: the extension-correction pass has run to completion before any
\* per-file work begins, and no file is renamed once per-file work has begun.
C10_FixFirst ==
  /\ [](PerFileStarted => (pc \notin {"start", "fix"} /\ walk = {}))
  /\ [][tree' # tree => (~PerFileStarted /\ ~PerFileStarted')]_vars

\* C10 witness: a file was renamed and a task has processed the renamed file
C10_Witness ==
  /\ Len(fixed_files) > 0
  /\ \E i \in 1..Len(all_media) :
       task[i].pc = "done" /\ task[i].ref = <<"posts", "photo", ".jpg">>

\* ---- claims about renamed files, the profile picture and the pass

\* the pass renamed the file of the reference url
Renamed(url) ==
  \E k \in 1..Len(fixed_files) : fixed_files[k].old_path = Full(url)

ProfileFileAt(p) == Exists(p) /\ tree[p].id = ProfileRef

\* C12: once line 113 has run, a profile picture whose file is in the tree
\* (renamed by the pass or not) has been shortened under the path the file
\* has, and its output file and its thumbnail exist.
C12_ProfileProcessed ==
  ( /\ pc \in {"collect", "pool", "abort", "returned"}
    /\ \E p \in TreePaths : ProfileFileAt(p) )
  => LET short == ShortenValue(profile_picture) IN
       /\ ProfileFileAt(profile_picture)
       /\ \/ <<short[1], short[2], ".webp">> \in DOMAIN out
          \/ short \in DOMAIN out
       /\ <<"md5", short>> \in DOMAIN thumbs

\* C13: fix_file_extensions never overwrites a file: the target of each
\* rename does not exist when the file is renamed, the rename moves the file
\* and touches no other path, and in the log no old_path and no new_path
\* occurs twice.
C13_NoOverwrite ==
  /\ [](\A j, k \in 1..Len(fixed_files) :
          j # k => /\ fixed_files[j].old_path # fixed_files[k].old_path
                   /\ fixed_files[j].new_path # fixed_files[k].new_path)
  /\ [][Len(fixed_files') > Len(fixed_files) =>
          LET r == fixed_files'[Len(fixed_files')]
              old == <<r.old_path[2], r.old_path[3], r.old_path[4]>>
              new == <<r.new_path[2], r.new_path[3], r.new_path[4]>> IN
            /\ new \in TreePaths
            /\ tree[new] = NoFile
            /\ tree[old] # NoFile
            /\ tree'[new] = tree[old]
            /\ tree'[old] = NoFile
            /\ \A q \in TreePaths \ {old, new} : tree'[q] = tree[q]]_vars

\* C13 witness: the pass has ended and one rename had to probe two suffixes
C13_Witness ==
  /\ pc = "fix"
  /\ walk = {}
  /\ \E k \in 1..Len(fixed_files) : fixed_files[k].new_path[3] = "photo_2"

\* the extensions of the table mime_to_ext
TableExts == {".jpg", ".png", ".gif", ".webp", ".heic", ".mp4", ".mov", ".webm"}

\* C14: a file is renamed only to the extension the table gives for its
\* type: every rename record names an extension of the table (a type
\* without a table entry leaves the file untouched).
C14_OnlyTableRenames ==
  \A k \in 1..Len(fixed_files) : fixed_files[k].new_type \in TableExts

\* ---- claims about the statistics and the pool

RECURSIVE SumOf(_, _)
\* the sum of f[p] over the p of S
SumOf(S, f) ==
  IF S = {} THEN 0
  ELSE LET p == CHOOSE q \in S : TRUE IN f[p] + SumOf(S \ {p}, f)

\* the WebP of the file f of an image reference is smaller than f
Compresses(p) ==
  /\ IsImage(p)
  /\ tree[p].decodable
  /\ tree[p].enc > 0
  /\ tree[p].enc < tree[p].size

\* a thumbnail can be made of the file at p
Thumbnailable(p) ==
  Exists(p) /\ tree[p].decodable /\ (IsImage(p) \/ IsVideo(p))

\* the statistics of the inputs when the files are processed one after the
\* other: they depend on the tree and on post_data only
SequentialStats ==
  LET existing == { p \in Range(media) : Exists(p) }
      keys == { <<"md5", NewPath(p)>> :
                  p \in { q \in Range(all_media) \cup {profile_picture} :
                            Thumbnailable(q) } } IN
    [thumbnail_count |-> Cardinality(keys),
     webp_count |-> Cardinality({ p \in existing : Compresses(p) }),
     total_size_original |->
       SumOf(existing, [p \in existing |-> tree[p].size]),
     total_size_webp |->
       SumOf(existing, [p \in existing |->
                          IF Compresses(p) THEN tree[p].enc ELSE tree[p].size])]

\* C15: the statistics process_media_files returns are those of the inputs,
\* whatever the interleaving of the worker tasks (stated for inputs whose
\* short paths do not collide).
C15_StatsExact ==
  (pc = "returned" /\ ~Collides) => stats = SequentialStats

\* the distinct references of the work list that have a thumbnail
ThumbnailedRefs ==
  { all_media[i] : i \in { j \in 1..Len(all_media) :
                             task[j].thumb \in {"made", "existing"} } }

\* C16: thumbnail_count is the number of media references of the post list
\* that have a thumbnail: in a run with a missing file and thumbnailed files
\* (whose short paths do not collide), the missing file adds nothing and
\* thumbnail_count is the number of thumbnailed references.
C16_ThumbnailCount ==
  ( /\ pc = "returned"
    /\ ~Collides
    /\ \E i \in 1..Len(all_media) : MissingSource(i)
    /\ \E i \in 1..Len(all_media) : task[i].thumb = "made" )
  => stats.thumbnail_count = Cardinality(ThumbnailedRefs)

\* the tasks of the pool that are being executed
RunningTasks == { j \in TaskIds : j >= 1 /\ Running(j) }

\* C17: at most thread_count media tasks are in execution at any moment;
\* thread_count is the constructor's argument, or max(1, cpu_count - 1) when
\* the argument is None or 0, and it is at least 1.
C17_BoundedConcurrency ==
  /\ Cardinality(RunningTasks) <= thread_count
  /\ thread_count >= 1
  /\ thread_arg # 0 => thread_count = thread_arg
  /\ thread_arg = 0 =>
       thread_count = (IF CpuCount - 1 > 1 THEN CpuCount - 1 ELSE 1)

\* every worker of a pool of at least two is busy
C17_Witness ==
  /\ thread_count >= 2
  /\ Cardinality(RunningTasks) = thread_count

\* the thumbnail at the cache path of task i is one complete file
ThumbComplete(i) ==
  LET k == ThumbName(ThumbKeyArg(i)) IN
    /\ k \in DOMAIN thumbs
    /\ thumbs[k].size = 1
    /\ thumbs[k].writers = {}

\* C18: thumbnails are written atomically: a task that finds a file at the
\* cache path and returns it as the existing thumbnail finds a complete
\* thumbnail, never one that another task is still writing, and once the tasks
\* have ended every thumbnail left is complete.
C18_AtomicThumbnail ==
  [][ /\ \A i \in TaskIds :
           (task[i].thumb # "existing" /\ task'[i].thumb = "existing")
             => ThumbComplete(i)
      /\ pc' = "returned" =>
           \A k \in DOMAIN thumbs' :
             thumbs'[k].size = 1 /\ thumbs'[k].writers = {} ]_vars

\* the first component of an inline data URI taken as a path
DataURIDirs == {"data:image", "data:video", "data:text"}

\* C19: an inline data URI is only passed through: shorten_filename returns
\* it unchanged and records no mapping for it, and the per-file flow creates
\* no directory, no media file and no thumbnail for it in the output directory.
C19_DataURIPassThrough ==
  /\ \A p \in DOMAIN filename_map : ~IsDataURI(p)
  /\ \A pr \in returned : IsDataURI(pr[1]) => pr[2] = pr[1]
  /\ \A k \in DOMAIN out : ~IsDataURI(k)
  /\ \A k \in DOMAIN thumbs : ~IsDataURI(k[2])
  /\ dirs \cap DataURIDirs = {}

\* task i ends generate_thumbnail with None
ThumbFails(i) == task[i].thumb # "failed" /\ task'[i].thumb = "failed"

\* C20: a failure at any step of generate_thumbnail returns None without
\* raising and leaves no file at the cache path of the key (the short paths
\* of the run do not collide, so that the key belongs to one reference).
C20_ThumbFailureClean ==
  [][ \A i \in TaskIds :
        (ThumbFails(i) /\ ~Collides)
          => /\ task'[i].pc = "done"
             /\ ThumbName(ThumbKeyArg(i)) \notin DOMAIN thumbs' ]_vars

\* ---- claims about logging, cancellation and the per-file flow

\* C21: every skipped or failed file is recorded: after the run, a task whose
\* source was missing has emitted its warning, and every transcoding failure
\* and every thumbnailing failure has been logged.
C21_SkipLogged ==
  pc = "returned" =>
    \A i \in 1..Len(all_media) :
      /\ task[i].pc = "skipped" => "missing" \in task[i].log
      /\ task[i].conv = "error" => "convert_error" \in task[i].log
      /\ task[i].thumb = "failed" => "thumb_error" \in task[i].log

\* a file of the output directory that a task holds open for writing
PartialOutput ==
  \/ \E w \in DOMAIN out : out[w].writers # {}
  \/ \E k \in DOMAIN thumbs : thumbs[k].writers # {}

Counted(i) == task[i].pc = "done"
Skipped(i) == task[i].pc = "skipped"

\* the media file task i has written is in the output directory
HasOutput(i) ==
  \/ WebpDest(task[i].short) \in DOMAIN out
  \/ OrigDest(task[i].short, task[i].ref) \in DOMAIN out

\* the stages of the task of a media reference happen in the order shorten,
\* existence check, copy or transcode, thumbnail attempt, and an ended task
\* stays as it ended
StageOrder(i) ==
  /\ (task[i].pc = "begin" /\ task'[i].pc # "begin") =>
       \/ IsDataURI(task[i].ref)
       \/ /\ task[i].ref \in DOMAIN filename_map'
          /\ task'[i].short = filename_map'[task[i].ref]
  /\ (task[i].pc # "thumb" /\ task'[i].pc = "thumb") =>
       /\ task[i].pc \in {"copy", "cv_stat", "cv_copy", "cv_except"}
       /\ HasOutput(i)'
  /\ task'[i].thumb # task[i].thumb =>
       task[i].pc \in {"thumb", "th_saved"}
  /\ task[i].pc \in Terminal => task'[i].pc = task[i].pc

\* C23: per-file state machine: the stages of every media reference happen
\* in order, every reference ends in exactly one terminal state, Counted or
\* Skipped, and a reference that was transcoded or copied ends Counted
\* whether or not its thumbnail was produced.
C23_StateMachine ==
  [][ \A i \in TaskIds \ {0} :
        /\ StageOrder(i)
        /\ task'[i].pc \in Terminal => (Counted(i)' \/ Skipped(i)')
        /\ (pc' = "returned" /\ i <= Len(all_media)) =>
             /\ Counted(i)' \/ Skipped(i)'
             /\ Skipped(i)' <=> MissingSource(i) ]_vars

\* lines 369-374: the extensions of the image types of mime_to_ext
TableImageExts == {".jpg", ".png", ".gif", ".webp", ".heic"}

\* C24: per-file routing by media type: a processed source that is an image
\* of the extension table went through the transcoder and attempted a
\* thumbnail, a video was copied verbatim and attempted a thumbnail, and any
\* other file was copied verbatim without a thumbnail attempt.
C24_Routing ==
  \A i \in TaskIds \ {0} :
    (task[i].pc = "done" /\ Exists(task[i].ref)) =>
      IF LowerExt(task[i].ref[3]) \in TableImageExts
        THEN task[i].conv # "none" /\ task[i].thumb # "none"
      ELSE IF IsVideo(task[i].ref)
        THEN task[i].conv = "none" /\ task[i].thumb # "none"
      ELSE task[i].conv = "none" /\ task[i].thumb = "none"

\* the tasks of the pool that have computed their destination and whose
\* source exists
WritingTasks ==
  { i \in TaskIds \ {0} : task[i].short # <<>> /\ Exists(task[i].ref) }

\* C25: no two per-file tasks of a run write to the same media destination:
\* the tasks have pairwise different output paths, also when a reference
\* occurs several times, and no output file is open for writing by two tasks.
C25_DistinctDestinations ==
  /\ \A i, j \in WritingTasks : i # j => task[i].short # task[j].short
  /\ \A w \in DOMAIN out : Cardinality(out[w].writers) <= 1

\* ---- the crop and resize of generate_thumbnail on their own

\* the largest width and height of a source image
MaxDim == 8

\* lines 497-498
target_width == 292
target_height == 292

\* a variant that always takes the branch of a landscape image
CropBoxLandscape(w, h) == <<(w - h) \div 2, 0, (w - h) \div 2 + h, h>>

\* lines 563-575: the box (src_x, src_y, src_x + src_w, src_y + src_h)
CropBox(w, h) ==
  IF w > h
    THEN <<(w - h) \div 2, 0, (w - h) \div 2 + h, 0 + h>>
    ELSE <<0, (h - w) \div 2, 0 + w, (h - w) \div 2 + w>>

\* the size of img.crop(box)
BoxSize(box) == <<box[3] - box[1], box[4] - box[2]>>

\* everything but img
cvars == <<filename_map, returned, sh, tree, out, thumbs, pc, walk, fixed_files,
           profile_picture, media, all_media, updated, task, dirs, stats,
           thread_arg, thread_count>>

InitCrop ==
  /\ filename_map = EmptyMap
  /\ sh = [t \in Threads |-> Idle]
  /\ returned = {}
  /\ tree = EmptyMap /\ out = EmptyMap /\ thumbs = EmptyMap
  /\ pc = "harness" /\ walk = {} /\ fixed_files = <<>>
  /\ profile_picture = <<>> /\ media = <<>> /\ all_media = <<>>
  /\ updated = <<>> /\ task = EmptyMap
  /\ dirs = {} /\ stats = ZeroStats
  /\ thread_arg = 1 /\ thread_count = 1
  /\ img = NoImage

\* lines 557-560: Image.open (or the frame of a video) and img.size
ThumbOpen(w, h) ==
  /\ img.stage \in {"none", "resized"}
  /\ img' = [stage |-> "opened", w |-> w, h |-> h, box |-> <<>>,
             size |-> <<w, h>>]
  /\ UNCHANGED cvars

\* lines 563-575: the crop to a square
ThumbCrop ==
  /\ img.stage = "opened"
  /\ img' = [img EXCEPT !.stage = "cropped",
                        !.box = CropBox(img.w, img.h),
                        !.size = BoxSize(CropBox(img.w, img.h))]
  /\ UNCHANGED cvars

\* line 576: the resize to the target dimensions
ThumbResize ==
  /\ img.stage = "cropped"
  /\ img' = [img EXCEPT !.stage = "resized",
                        !.size = <<target_width, target_height>>]
  /\ UNCHANGED cvars

NextCrop ==
  \/ \E w, h \in 1..MaxDim : ThumbOpen(w, h)
  \/ ThumbCrop
  \/ ThumbResize

SpecCrop == InitCrop /\ [][NextCrop]_vars

\* C26: square crop: the box is (x, y, x+s, y+s) with s = min(w, h), x =
\* (w-h) div 2 and y = 0 for w > h, x = 0 and y = (h-w) div 2 otherwise; it
\* lies inside the image, and the thumbnail is resized to 292 x 292.
C26_SquareCrop ==
  LET w == img.w
      h == img.h
      s == IF w < h THEN w ELSE h
      x == IF w > h THEN (w - h) \div 2 ELSE 0
      y == IF w > h THEN 0 ELSE (h - w) \div 2
  IN /\ img.stage \in {"cropped", "resized"} =>
          /\ img.box = <<x, y, x + s, y + s>>
          /\ 0 <= x /\ x + s <= w
          /\ 0 <= y /\ y + s <= h
     /\ img.stage = "cropped" => img.size = <<s, s>>
     /\ img.stage = "resized" => img.size = <<292, 292>>

\* the thumbnail of a portrait image whose margins are odd has been resized
C26_Witness ==
  /\ img.stage = "resized"
  /\ img.h > img.w
  /\ (img.h - img.w) % 2 = 1

\* ---- claims about the returned paths and the statistics

\* the returned short path of entry i of the work list, or its .webp sibling,
\* is a file of the output directory
Resolves(i) ==
  \/ updated[i] \in DOMAIN out
  \/ <<updated[i][1], updated[i][2], ".webp">> \in DOMAIN out

\* C27: every path handed back resolves to an output file: after the run,
\* for every media reference whose source exists, the returned short path or
\* its .webp sibling exists in the output directory, for every spelling of the
\* extension and every branch of the transcoder.
C27_PathResolves ==
  pc = "returned" =>
    \A i \in 1..Len(all_media) : Exists(all_media[i]) => Resolves(i)

\* the distinct references of the work list whose source was processed
ProcessedRefs ==
  { all_media[i] : i \in { j \in 1..Len(all_media) :
                             task[j].pc = "done" /\ Exists(all_media[j]) } }

\* the size of the media file the run has written for the reference p
OutputOf(p) ==
  LET short == NewPath(p) IN
    IF WebpDest(short) \in DOMAIN out THEN out[WebpDest(short)].size
    ELSE IF OrigDest(short, p) \in DOMAIN out
      THEN out[OrigDest(short, p)].size
    ELSE 0

\* C28: the size statistics cover every processed file: total_size_original
\* is the sum of the source sizes and total_size_webp the sum of the output
\* sizes over the distinct references processed in the run, the references
\* whose file the extension pass renamed included (stated for runs whose
\* short paths do not collide).
C28_SizeStats ==
  (pc = "returned" /\ ~Collides) =>
    /\ stats.total_size_original =
         SumOf(ProcessedRefs, [p \in ProcessedRefs |-> tree[p].size])
    /\ stats.total_size_webp =
         SumOf(ProcessedRefs, [p \in ProcessedRefs |-> OutputOf(p)])

\* ---- process_media_files called again on the same processor

\* lines 96-100: a second call with the same post_data and profile_picture:
\* the locals are new, the attributes of the processor (filename_map and the
\* counters) and the files are as the first call left them (the counter is
\* capped: no further call once it exceeds what one call can count)
SecondCall ==
  /\ pc = "returned"
  /\ stats.webp_count <= MaxMedia
  /\ pc' = "start"
  /\ profile_picture' = ProfileRef
  /\ all_media' = <<>>
  /\ updated' = <<>>
  /\ walk' = {}
  /\ fixed_files' = <<>>
  /\ task' = [i \in TaskIds |-> NoTask]
  /\ UNCHANGED <<filename_map, returned, hvars, evars, dirs, stats, tree, out,
                 thumbs, media>>

\* a processor with one worker and post_data with at most one reference
InitRerun ==
  /\ Init
  /\ thread_count = 1
  /\ Len(media) <= 1

NextRerun ==
  \/ Next
  \/ SecondCall

SpecRerun == InitRerun /\ [][NextRerun]_vars

\* the distinct references of the work list whose WebP this call kept
KeptRefs ==
  { all_media[i] : i \in { j \in 1..Len(all_media) : task[j].conv = "kept" } }

\* C29: the webp_count a call returns is the number of distinct media
\* references whose image that call transcoded with the WebP kept; verbatim
\* copies are not counted and a second call on the same processor does not
\* add the counts of the first (stated for calls in which the extension pass
\* corrected no reference and no short paths collide).
C29_WebpCount ==
  ( /\ pc = "returned"
    /\ ~Collides
    /\ \A i \in 1..Len(all_media) : all_media[i] = media[i] )
  => stats.webp_count = Cardinality(KeptRefs)

\* lines 174-180: percentage_saved, rounded down to a whole number
PercentageSaved(st) ==
  IF st.total_size_original > 0
    THEN ((st.total_size_original - st.total_size_webp) * 100)
           \div st.total_size_original
    ELSE 0

\* C30: the aggregate sizes never show inflation: after every run
\* total_size_webp <= total_size_original, so that the space saved is not
\* negative and percentage_saved lies between 0 and 100, and it is 0 when
\* total_size_original is 0; also for references whose short names coincide.
C30_NoInflation ==
  pc = "returned" =>
    /\ stats.total_size_webp <= stats.total_size_original
    /\ PercentageSaved(stats) >= 0
    /\ PercentageSaved(stats) <= 100
    /\ stats.total_size_original = 0 => PercentageSaved(stats) = 0

====
